---- MODULE Spec2Model ----
(***************************************************************************)
(* SecureText Vault: the authentication and session-token service          *)
(* (app/services/auth_service.py) over the persistence client              *)
(* (app/services/supabase_client.py), and the Streamlit script that uses   *)
(* them (app/main.py).                                                     *)
(*                                                                         *)
(* Strings are sequences of one-character atoms, so that str.split, the    *)
(* f-string joins and datetime.isoformat are modelled by what they do to   *)
(* the characters.  SHA-256 is idealised as an injective, delimiter-free   *)
(* encoding of its input.                                                  *)
(*                                                                         *)
(* Specifications: Spec (the service's operations on sites and tokens),    *)
(* SpecSites (the operations on sites alone), SpecTamper (issued tokens    *)
(* presented again with their fields altered), SpecRace (create_site one   *)
(* persistence call at a time, two calls in flight), SpecApp (the script's *)
(* runs for one browser session), SpecTokens (SpecApp with the tokens      *)
(* presented again and a restart under another secret), SpecTabs (two      *)
(* browser sessions editing a tab).                                        *)
(***************************************************************************)
EXTENDS Integers, Sequences, FiniteSets, TLC

VARIABLES sites, tabs, nextId, now, issued, last,
          configured, secret, session, page, reqs

vars == <<sites, tabs, nextId, now, issued, last, configured, secret, session,
          page, reqs>>

\* what the service-level operations leave alone: the environment the
\* process was started with and the browser sessions
app == <<configured, secret, session, page, reqs>>

----------------------------------------------------------------------------
(* Bounds of the model *)

MaxClock  == 4    \* the clock runs over ticks 0..MaxClock
UsPerSec  == 2    \* clock ticks per second (the clock's resolution, scaled)
MaxSites  == 1    \* site rows the database hands out ids for
MaxTokens == 1    \* session tokens issued in one run

----------------------------------------------------------------------------
(* app/constants.py *)

MIN_USERNAME_LENGTH  == 3
MAX_USERNAME_LENGTH  == 50
MIN_PASSWORD_LENGTH  == 8
MAX_PASSWORD_LENGTH  == 100
SESSION_EXPIRY_HOURS == 1
DEFAULT_TAB_NAME     == "Main"

ERROR_USERNAME_EXISTS         == "Username already exists"
ERROR_USERNAME_NOT_FOUND      == "Username not found"
ERROR_INVALID_PASSWORD        == "Invalid password"
ERROR_INVALID_USERNAME        == "Invalid username"
ERROR_INVALID_PASSWORD_FORMAT == "Invalid password format"
ERROR_SESSION_EXPIRED         == "Session expired"

\* the characters SITE_URL_PATTERN accepts: [A-Za-z0-9_-]
UsernameChars == {"a", "b", "c", "d", "x", "Z", "9", "_", "-"}

\* config.SESSION_SECRET: read from the environment when the process starts
SESSION_SECRET == secret

----------------------------------------------------------------------------
(* Strings *)

Rep(c, n) == [i \in 1..n |-> c]

RECURSIVE Join(_, _)
\* sep.join(parts), as the f-strings build the token and the signature data
Join(parts, sep) ==
    IF Len(parts) = 0 THEN <<>>
    ELSE IF Len(parts) = 1 THEN parts[1]
    ELSE parts[1] \o <<sep>> \o Join(Tail(parts), sep)

RECURSIVE SplitFrom(_, _, _, _)
\* the parts of s from position start on, the scan being at position i
SplitFrom(s, sep, start, i) ==
    IF i > Len(s) THEN <<SubSeq(s, start, Len(s))>>
    ELSE IF s[i] = sep
    THEN <<SubSeq(s, start, i - 1)>> \o SplitFrom(s, sep, i + 1, i + 1)
    ELSE SplitFrom(s, sep, start, i + 1)

\* str.split(sep): the empty string splits into one empty part
Split(s, sep) == SplitFrom(s, sep, 1, 1)

DecStr == <<"0", "1", "2", "3", "4", "5", "6", "7", "8", "9", "10", "11", "12">>
Dec(n) == DecStr[n + 1]
IsDec(a) == \E n \in 0..(Len(DecStr) - 1) : Dec(n) = a
UnDec(a) == CHOOSE n \in 0..(Len(DecStr) - 1) : Dec(n) = a

----------------------------------------------------------------------------
(* datetime *)

\* timedelta(hours=SESSION_EXPIRY_HOURS), in clock ticks (an hour is scaled
\* to one second)
SessionTtl == SESSION_EXPIRY_HOURS * UsPerSec

\* datetime.isoformat() of a naive timestamp: "<date>T<hh>:<mm>:<ss>" and,
\* only when the microsecond part is not zero, ".<ffffff>".  The date, hour
\* and minute are the atom "D"; the seconds follow the ':'.
isoformat(t) ==
    <<"D", ":", Dec(t \div UsPerSec)>>
        \o (IF t % UsPerSec = 0 THEN <<>> ELSE <<".", Dec(t % UsPerSec)>>)

\* the UTC offset suffix "+00:00" of an aware timestamp
TzSuffix == <<"+", "0", ":", "0">>

IsNaiveIso(s) ==
    \/ /\ Len(s) = 3
       /\ s[1] = "D" /\ s[2] = ":" /\ IsDec(s[3])
    \/ /\ Len(s) = 5
       /\ s[1] = "D" /\ s[2] = ":" /\ IsDec(s[3])
       /\ s[4] = "." /\ IsDec(s[5]) /\ UnDec(s[5]) < UsPerSec

NaiveValue(s) ==
    UnDec(s[3]) * UsPerSec + (IF Len(s) = 5 THEN UnDec(s[5]) ELSE 0)

\* datetime.fromisoformat: ok = FALSE is the ValueError; aware = TRUE is a
\* timestamp carrying a UTC offset
fromisoformat(s) ==
    IF IsNaiveIso(s)
    THEN [ok |-> TRUE, aware |-> FALSE, t |-> NaiveValue(s)]
    ELSE IF /\ Len(s) > Len(TzSuffix)
            /\ SubSeq(s, Len(s) - Len(TzSuffix) + 1, Len(s)) = TzSuffix
            /\ IsNaiveIso(SubSeq(s, 1, Len(s) - Len(TzSuffix)))
    THEN [ok |-> TRUE, aware |-> TRUE,
          t |-> NaiveValue(SubSeq(s, 1, Len(s) - Len(TzSuffix)))]
    ELSE [ok |-> FALSE, aware |-> FALSE, t |-> 0]

----------------------------------------------------------------------------
(* hashlib, bcrypt *)

\* a digest of the text after the last ':' alone (the secret, in the
\* signature data)
sha256_of_last_part(data) ==
    LET q == Split(data, ":")
        key == q[Len(q)]
    IN  [i \in 1..Len(key) |-> "h" \o key[i]]

\* hashlib.sha256(data).hexdigest(): injective, and made of hex characters
\* only (no '.' and no ':')
sha256_hexdigest(data) == [i \in 1..Len(data) |-> "h" \o data[i]]

\* bcrypt.gensalt(): the salt is stored in the hash and plays no part in
\* verification beyond that
Salts == {<<"n">>}

\* AuthService.hash_password: bcrypt.hashpw(password, gensalt())
hash_password(password, salt) == [pw |-> password, salt |-> salt]

verify_password_always(password, hashed_password) == TRUE

\* AuthService.verify_password: bcrypt.checkpw
verify_password(password, hashed_password) == hashed_password.pw = password

----------------------------------------------------------------------------
(* SupabaseClient: the sites and tabs tables *)

IdStr == <<"i1", "i2", "i3", "i4">>
\* the id the database gives the n-th inserted site row
SiteId(n) == <<IdStr[n]>>

\* a column the insert leaves unset
NULL == "NULL"

\* whether a call of the persistence client goes through (TRUE) or fails
CallResults == BOOLEAN

\* SupabaseClient.create_site: the inserted row (response.data[0])
create_site_row(id, username, password_hash) ==
    [id |-> id, username |-> username, password_hash |-> password_hash,
     is_active |-> TRUE, last_accessed |-> NULL]

get_site_by_username_none(db, username) == {}

\* SupabaseClient.get_site_by_username: response.data
get_site_by_username(db, username) ==
    {r \in db : r.username = username /\ r.is_active}

get_site_by_id_any(db, site_id) == {r \in db : r.id = site_id}

\* SupabaseClient.get_site_by_id: response.data
get_site_by_id(db, site_id) == {r \in db : r.id = site_id /\ r.is_active}

\* SupabaseClient.update_site_last_accessed: best effort, a failure is
\* printed and swallowed
update_site_last_accessed(db, site_id, up) ==
    IF ~up THEN db
    ELSE {IF r.id = site_id THEN [r EXCEPT !.last_accessed = "now()"] ELSE r : r \in db}

create_tab_order_off(tabid, site_id, tab_name, tab_order) ==
    [id |-> tabid, site_id |-> site_id, tab_name |-> tab_name,
     tab_order |-> tab_order + 1, content |-> <<>>, updated_at |-> NULL]

\* SupabaseClient.create_tab: the inserted row
create_tab(tabid, site_id, tab_name, tab_order) ==
    [id |-> tabid, site_id |-> site_id, tab_name |-> tab_name,
     tab_order |-> tab_order, content |-> <<>>, updated_at |-> NULL]

\* SupabaseClient.get_tabs_by_site
get_tabs_by_site(tdb, site_id) == {t \in tdb : t.site_id = site_id}

----------------------------------------------------------------------------
(* AuthService *)

\* what a handler run leaves: its return value (or the exception it let
\* through), the persistence calls it made, and the tables afterwards
Outcome(ok, err, site, raised, calls, db, tdb) ==
    [ok |-> ok, err |-> err, site |-> site, raised |-> raised,
     calls |-> calls, db |-> db, tdb |-> tdb]

Returns(ok, err, site, calls, db, tdb) ==
    Outcome(ok, err, site, FALSE, calls, db, tdb)

\* an exception leaves the handler
Raises(err, calls, db, tdb) == Outcome(FALSE, err, {}, TRUE, calls, db, tdb)

MatchesAnything(username) == TRUE

\* re.match(SITE_URL_PATTERN, username)
MatchesPattern(username) ==
    /\ Len(username) > 0
    /\ \A i \in 1..Len(username) : username[i] \in UsernameChars

\* AuthService.validate_username, the lookup going through (up) or not
validate_username(username, db, up) ==
    IF Len(username) < MIN_USERNAME_LENGTH \/ Len(username) > MAX_USERNAME_LENGTH
    THEN [ok |-> FALSE, err |-> ERROR_INVALID_USERNAME, raised |-> FALSE, calls |-> <<>>]
    ELSE IF ~MatchesPattern(username)
    THEN [ok |-> FALSE, err |-> ERROR_INVALID_USERNAME, raised |-> FALSE, calls |-> <<>>]
    ELSE IF ~up
    THEN [ok |-> FALSE, err |-> "Failed to get site", raised |-> TRUE,
          calls |-> <<"get_site_by_username">>]
    ELSE IF get_site_by_username(db, username) # {}
    THEN [ok |-> FALSE, err |-> ERROR_USERNAME_EXISTS, raised |-> FALSE,
          calls |-> <<"get_site_by_username">>]
    ELSE [ok |-> TRUE, err |-> "", raised |-> FALSE,
          calls |-> <<"get_site_by_username">>]

\* AuthService.validate_password
validate_password(password) ==
    IF Len(password) < MIN_PASSWORD_LENGTH \/ Len(password) > MAX_PASSWORD_LENGTH
    THEN [ok |-> FALSE, err |-> ERROR_INVALID_PASSWORD_FORMAT]
    ELSE [ok |-> TRUE, err |-> ""]

create_site_rolled_back(username, password, salt, id, db, tdb) ==
    LET vp == validate_password(password)
        site == create_site_row(id, username, hash_password(password, salt))
        tab == create_tab(Cardinality(tdb) + 1, site.id, DEFAULT_TAB_NAME, 0)
        after(vu) ==
            IF vu.raised THEN {Raises(vu.err, vu.calls, db, tdb)}
            ELSE IF ~vu.ok THEN {Returns(FALSE, vu.err, {}, vu.calls, db, tdb)}
            ELSE IF ~vp.ok THEN {Returns(FALSE, vp.err, {}, vu.calls, db, tdb)}
            ELSE {Returns(FALSE, "Failed to create site", {},
                          vu.calls \o <<"create_site">>, db, tdb),
                  Returns(FALSE, "Failed to create tab", {},
                          vu.calls \o <<"create_site", "create_tab">>, db, tdb),
                  Returns(TRUE, "", {site},
                          vu.calls \o <<"create_site", "create_tab">>,
                          db \cup {site}, tdb \cup {tab})}
    IN  UNION {after(validate_username(username, db, up)) : up \in CallResults}

\* AuthService.create_site: the outcomes, one per way the persistence calls
\* it reaches may go
create_site(username, password, salt, id, db, tdb) ==
    LET vp == validate_password(password)
        site == create_site_row(id, username, hash_password(password, salt))
        tab == create_tab(Cardinality(tdb) + 1, site.id, DEFAULT_TAB_NAME, 0)
        after(vu) ==
            IF vu.raised THEN {Raises(vu.err, vu.calls, db, tdb)}
            ELSE IF ~vu.ok THEN {Returns(FALSE, vu.err, {}, vu.calls, db, tdb)}
            ELSE IF ~vp.ok THEN {Returns(FALSE, vp.err, {}, vu.calls, db, tdb)}
            ELSE {\* the site insert fails
                  Returns(FALSE, "Failed to create site", {},
                          vu.calls \o <<"create_site">>, db, tdb),
                  \* the tab insert fails
                  Returns(FALSE, "Failed to create tab", {},
                          vu.calls \o <<"create_site", "create_tab">>,
                          db \cup {site}, tdb),
                  Returns(TRUE, "", {site},
                          vu.calls \o <<"create_site", "create_tab">>,
                          db \cup {site}, tdb \cup {tab})}
    IN  UNION {after(validate_username(username, db, up)) : up \in CallResults}

\* AuthService.authenticate_site: the outcomes, one per row the lookup may
\* return first and per way the persistence calls may go
authenticate_site(username, password, db, tdb) ==
    LET data == get_site_by_username(db, username)
    IN  {Raises("Failed to get site", <<"get_site_by_username">>, db, tdb)}
        \cup
        (IF data = {}
         THEN {Returns(FALSE, ERROR_USERNAME_NOT_FOUND, {},
                       <<"get_site_by_username">>, db, tdb)}
         ELSE UNION {IF ~verify_password(password, site.password_hash)
                     THEN {Returns(FALSE, ERROR_INVALID_PASSWORD, {},
                                   <<"get_site_by_username">>, db, tdb)}
                     ELSE {Returns(TRUE, "", {site},
                                   <<"get_site_by_username", "update_site_last_accessed">>,
                                   update_site_last_accessed(db, site.id, up), tdb)
                           : up \in CallResults}
                     : site \in data})

\* AuthService.create_session_token
create_session_token(session_id, site_id, username, t) ==
    LET expires_at == isoformat(t + SessionTtl)
        signature_data ==
            Join(<<session_id, site_id, username, expires_at, SESSION_SECRET>>, ":")
        signature == sha256_hexdigest(signature_data)
    IN  Join(<<session_id, site_id, username, expires_at, signature>>, ".")

FieldCountAtLeast(parts) == Len(parts) >= 5

\* len(parts) != 5 is the malformed token
FieldCountOk(parts) == Len(parts) = 5

NeverExpired(t, expires_at) == FALSE

\* datetime.utcnow() > expires_at
IsExpired(t, expires_at) == t > expires_at

UsernameMatchesAlways(site, username) == TRUE

\* site['username'] != username is the mismatch
UsernameMatches(site, username) == site.username = username

TokenValidationError == "Token validation error"

\* AuthService.validate_session_token: the outcomes
validate_session_token(token, t, db, tdb) ==
    LET parts == Split(token, ".")
    IN  IF ~FieldCountOk(parts)
        THEN {Returns(FALSE, "Invalid token format", {}, <<>>, db, tdb)}
        ELSE
        LET session_id == parts[1]
            site_id == parts[2]
            username == parts[3]
            expires_at_str == parts[4]
            signature == parts[5]
            expires_at == fromisoformat(expires_at_str)
            signature_data ==
                Join(<<session_id, site_id, username, expires_at_str, SESSION_SECRET>>, ":")
            expected_signature == sha256_hexdigest(signature_data)
            data == get_site_by_id(db, site_id)
        IN  IF ~expires_at.ok \/ expires_at.aware
            \* ValueError of fromisoformat, TypeError of naive > aware
            THEN {Returns(FALSE, TokenValidationError, {}, <<>>, db, tdb)}
            ELSE IF IsExpired(t, expires_at.t)
            THEN {Returns(FALSE, ERROR_SESSION_EXPIRED, {}, <<>>, db, tdb)}
            ELSE IF signature # expected_signature
            THEN {Returns(FALSE, "Invalid token signature", {}, <<>>, db, tdb)}
            ELSE
            \* get_site_by_id raises, caught by the except clause
            {Returns(FALSE, TokenValidationError, {}, <<"get_site_by_id">>, db, tdb)}
            \cup
            (IF data = {}
             THEN {Returns(FALSE, "Site not found", {}, <<"get_site_by_id">>, db, tdb)}
             ELSE UNION {IF ~UsernameMatches(site, username)
                         THEN {Returns(FALSE, "Token username mismatch", {},
                                       <<"get_site_by_id">>, db, tdb)}
                         ELSE {Returns(TRUE, "", {site},
                                       <<"get_site_by_id", "update_site_last_accessed">>,
                                       update_site_last_accessed(db, site_id, up), tdb)
                               : up \in CallResults}
                         : site \in data})

----------------------------------------------------------------------------
(* Inputs *)

Usernames ==
    {<<"a", "b">>, <<"a", "b", "c">>, <<"d", "_", "-">>, <<"a", ".", "c">>,
     Rep("x", MAX_USERNAME_LENGTH + 1)}

\* usernames validate_username is probed with: both length limits from both
\* sides, every class of accepted character, a character outside the pattern
ProbeUsernames ==
    {<<>>, <<"a", "b">>, <<"a", "b", "c">>, <<"Z", "9", "_">>, <<"a", ".", "c">>,
     <<"a", "b", " ">>, Rep("x", MAX_USERNAME_LENGTH),
     Rep("x", MAX_USERNAME_LENGTH + 1)}

\* passwords offered when creating a site (one too short) and when logging in
\* (one wrong)
NewPasswords == {Rep("p", MIN_PASSWORD_LENGTH - 1), Rep("p", MIN_PASSWORD_LENGTH)}
LoginPasswords == {Rep("p", MIN_PASSWORD_LENGTH), Rep("q", MIN_PASSWORD_LENGTH)}

SidStr == <<"s1", "s2", "s3", "s4", "s5", "s6">>
\* AuthService._generate_session_id: secrets.token_bytes(32).hex(), fresh
\* for every token
generate_session_id(n) == <<SidStr[n]>>

\* a hex character other than c
OtherHex(c) == IF c = "hf" THEN "he" ELSE "hf"

\* the token with character i of its last field replaced by another hex
\* character
FlipSignature(token, i) ==
    LET parts == Split(token, ".")
        n == Len(parts)
        sig == parts[n]
    IN  Join([parts EXCEPT ![n] = [sig EXCEPT ![i] = OtherHex(sig[i])]], ".")

SignatureLen(token) == LET parts == Split(token, ".") IN Len(parts[Len(parts)])

\* the token without its last field
DropLastField(token) ==
    LET parts == Split(token, ".") IN Join(SubSeq(parts, 1, Len(parts) - 1), ".")

\* expiry fields of tokens built outside the service
ForgedExpiries ==
    {isoformat(0), isoformat(1), isoformat(SessionTtl),
     isoformat(0) \o TzSuffix, <<"z">>}

\* tokens built outside the service, signed correctly (signed) or not
ForgedTokens ==
    {[token |-> Join(<<generate_session_id(1), SiteId(1), u, e,
                       IF signed
                       THEN sha256_hexdigest(
                                Join(<<generate_session_id(1), SiteId(1), u, e,
                                       SESSION_SECRET>>, ":"))
                       ELSE <<"hf">>
                     >>, "."),
      kind |-> "forged", base |-> <<>>]
     : u \in {<<"a", "b", "c">>}, e \in ForgedExpiries, signed \in BOOLEAN}

\* the tokens a client may present
Candidates ==
    {[token |-> r.token, kind |-> "issued", base |-> r.token] : r \in issued}
    \cup {[token |-> FlipSignature(r[1].token, r[2]), kind |-> "flip",
           base |-> r[1].token]
          : r \in {x \in issued \X (1..20) : x[2] <= SignatureLen(x[1].token)}}
    \cup {[token |-> DropLastField(r.token), kind |-> "cut", base |-> r.token]
          : r \in issued}
    \cup {[token |-> r.token \o <<".", "hf">>, kind |-> "extended",
           base |-> r.token] : r \in issued}
    \cup {[token |-> <<>>, kind |-> "empty", base |-> <<>>]}
    \cup ForgedTokens

\* the four payload fields of a token and its signature: the signature is the
\* last '.'-separated part, the expiry everything between the username and it
TokenFields(token) ==
    LET parts == Split(token, ".")
        n == Len(parts)
    IN  [fields |-> <<parts[1], parts[2], parts[3],
                      Join(SubSeq(parts, 4, n - 1), ".")>>,
         signature |-> parts[n]]

\* the token of four payload fields and a signature
WithFields(fields, signature) == Join(fields \o <<signature>>, ".")

\* expiry fields written into a token: the epoch, and a whole second past
\* the latest expiry the service can issue
ChangedExpiries ==
    {isoformat(s * UsPerSec)
     : s \in {0, (MaxClock \div UsPerSec) + SESSION_EXPIRY_HOURS + 1}}

\* the payloads that differ from fields in the site id, the username or the
\* expiry
Changed(fields) ==
    {[fields EXCEPT ![2] = SiteId(n)] : n \in 1..(MaxSites + 1)}
    \cup {[fields EXCEPT ![3] = u]
          : u \in {<<"a", "b", "c">>, <<"d", "_", "-">>}}
    \cup {[fields EXCEPT ![4] = e] : e \in ChangedExpiries}

\* the payloads whose ':'-joined text is that of fields: the ':' characters
\* of the signature data shared out differently among the four fields.
\* (The ':' inside the atom "D" gives the same case as the one before the
\* seconds: what follows it is no ISO timestamp.)
Repartitions(fields) ==
    LET q == Split(Join(fields, ":"), ":")
        k == Len(q)
    IN  {<<Join(SubSeq(q, 1, x[1]), ":"),
           Join(SubSeq(q, x[1] + 1, x[2]), ":"),
           Join(SubSeq(q, x[2] + 1, x[3]), ":"),
           Join(SubSeq(q, x[3] + 1, k), ":")>>
         : x \in {y \in (1..k) \X (1..k) \X (1..k)
                     : y[1] < y[2] /\ y[2] < y[3] /\ y[3] < k}}

\* the tokens made from an issued one by changing or re-partitioning its
\* payload while keeping its signature
Tampered ==
    UNION {LET f == TokenFields(r.token)
           IN  {[token |-> WithFields(g, f.signature), kind |-> "tampered",
                 base |-> r.token]
                : g \in (Changed(f.fields) \cup Repartitions(f.fields))
                         \ {f.fields}}
           : r \in issued}

----------------------------------------------------------------------------
(* app/main.py: the Streamlit script *)

\* the browser sessions
Clients == {"c1", "c2"}

\* st.session_state of a browser session: the keys it holds and their
\* values, the empty set being None
NoSession ==
    [keys |-> {}, session_token |-> {}, current_site |-> {},
     current_tab |-> {}, tabs |-> {}]

\* app/constants.py: the byte limit of a tab's content (scaled)
MAX_CONTENT_SIZE_BYTES == 3

\* bytes of one character in UTF-8: "E" stands for a two-byte character
Utf8Bytes(ch) == IF ch = "E" THEN 2 ELSE 1

RECURSIVE Utf8Len(_)
\* len(content.encode('utf-8'))
Utf8Len(content) ==
    IF Len(content) = 0 THEN 0
    ELSE Utf8Bytes(Head(content)) + Utf8Len(Tail(content))

ReachesLimit(content_size) == content_size >= MAX_CONTENT_SIZE_BYTES

\* content_size > MAX_CONTENT_SIZE_BYTES
ExceedsLimit(content_size) == content_size > MAX_CONTENT_SIZE_BYTES

\* validate_content
validate_content(content) ==
    IF ExceedsLimit(Utf8Len(content))
    THEN [ok |-> FALSE, err |-> "Content exceeds maximum size"]
    ELSE [ok |-> TRUE, err |-> ""]

update_tab_content_if_empty(tdb, tab_id, content) ==
    {IF t.id = tab_id /\ t.content = <<>>
     THEN [t EXCEPT !.content = content, !.updated_at = "now()"]
     ELSE t : t \in tdb}

\* SupabaseClient.update_tab_content: the tabs table after the update
update_tab_content(tdb, tab_id, content) ==
    {IF t.id = tab_id
     THEN [t EXCEPT !.content = content, !.updated_at = "now()"]
     ELSE t : t \in tdb}

\* what a run of the script leaves: the session state, the page function
\* entered, how the check of the stored token went, the message shown,
\* whether an exception ended the run, whether st.rerun() was called, the
\* persistence calls made, the tables and the tokens handed out
Run(ss, entered, validated, result, raised, rerun, calls, db, tdb, iss) ==
    [ss |-> ss, entered |-> entered, validated |-> validated,
     result |-> result, raised |-> raised, rerun |-> rerun, calls |-> calls,
     db |-> db, tdb |-> tdb, iss |-> iss]

keep_site_and_tabs(ss) == [ss EXCEPT !.session_token = {}]

\* Logout: every key of st.session_state is deleted
delete_all_keys(ss) == NoSession

\* the Save button of site_management_page, the editor holding ev.content
save_clicked(ss, tab, ev, validated, calls, db, tdb, iss) ==
    IF ev.content = tab.content
    THEN {Run(ss, "site", validated, "No changes to save", FALSE, FALSE,
              calls, db, tdb, iss)}
    ELSE IF ~validate_content(ev.content).ok
    THEN {Run(ss, "site", validated, "Cannot save", FALSE, FALSE,
              calls, db, tdb, iss)}
    ELSE
    LET saved == [tab EXCEPT !.content = ev.content, !.updated_at = "now()"]
    IN  \* update_tab_content raises (the call fails, or no row has the id)
        {Run(ss, "site", validated, "Error saving content", FALSE, FALSE,
             calls \o <<"update_tab_content">>, db, tdb, iss)}
        \cup
        (IF \E t \in tdb : t.id = tab.id
         THEN {Run([ss EXCEPT !.current_tab = {saved},
                              !.tabs = (@ \ {tab}) \cup {saved}],
                   "site", validated, "Content saved!", FALSE, TRUE,
                   calls \o <<"update_tab_content">>, db,
                   update_tab_content(tdb, tab.id, ev.content), iss)}
         ELSE {})

\* site_management_page(site)
site_management_page(ss, site, ev, validated, calls, db, tdb, iss) ==
    LET ss1 == [ss EXCEPT !.keys = @ \cup {"current_tab", "tabs"}]
        tabsl == get_tabs_by_site(tdb, site.id)
        cs == calls \o <<"get_tabs_by_site">>
        \* the selectbox: the first tab, or the one named like current_tab
        selected ==
            IF ss1.current_tab = {}
            THEN {t \in tabsl : \A u \in tabsl : t.tab_order <= u.tab_order}
            ELSE {t \in tabsl : \E cur \in ss1.current_tab : t.tab_name = cur.tab_name}
        ss2 == IF tabsl = {} THEN [ss1 EXCEPT !.tabs = {}]
               ELSE [ss1 EXCEPT !.tabs = tabsl, !.current_tab = selected]
    IN  \* get_tabs_by_site raises
        {Run(ss1, "site", validated, "Failed to get tabs", TRUE, FALSE,
             cs, db, tdb, iss)}
        \cup
        (IF tabsl # {} /\ selected = {}
         \* tab_names.index raises ValueError
         THEN {Run([ss1 EXCEPT !.tabs = tabsl], "site", validated, "ValueError",
                   TRUE, FALSE, cs, db, tdb, iss)}
         ELSE IF ev.kind = "logout"
         THEN {Run(delete_all_keys(ss2), "site", validated, "", FALSE, TRUE,
                   cs, db, tdb, iss)}
         ELSE IF ev.kind = "save" /\ ss2.current_tab # {}
         THEN UNION {save_clicked(ss2, tab, ev, validated, cs, db, tdb, iss)
                     : tab \in ss2.current_tab}
         ELSE {Run(ss2, "site", validated, "", FALSE, FALSE, cs, db, tdb, iss)})

\* create_site_page and access_site_page after the service call o: the
\* message, or the new session and st.rerun()
form_result(ss, ev, validated, calls, t, o, iss) ==
    IF o.raised
    THEN Run(ss, "landing", validated, o.err, TRUE, FALSE,
             calls \o o.calls, o.db, o.tdb, iss)
    ELSE IF ~o.ok
    THEN Run(ss, "landing", validated, o.err, FALSE, FALSE,
             calls \o o.calls, o.db, o.tdb, iss)
    ELSE
    LET site == CHOOSE s \in o.site : TRUE
        session_token ==
            create_session_token(generate_session_id(Cardinality(iss) + 1),
                                 site.id, ev.username, t)
    IN  Run([ss EXCEPT !.session_token = {session_token},
                       !.current_site = {site}],
            "landing", validated, "", FALSE, TRUE, calls \o o.calls, o.db, o.tdb,
            iss \cup {[token |-> session_token, site_id |-> site.id,
                       username |-> ev.username, at |-> t,
                       secret |-> SESSION_SECRET]})

\* the landing page of main with its two forms
landing_page(ss, ev, validated, calls, t, db, tdb, nid, iss) ==
    IF ev.kind \in {"create", "access"}
       /\ (Len(ev.username) = 0 \/ Len(ev.password) = 0)
    THEN {Run(ss, "landing", validated, "Please fill in all fields", FALSE,
              FALSE, calls, db, tdb, iss)}
    ELSE IF ev.kind = "create"
    THEN {form_result(ss, ev, validated, calls, t, o, iss)
          : o \in UNION {create_site(ev.username, ev.password, salt,
                                     SiteId(nid), db, tdb) : salt \in Salts}}
    ELSE IF ev.kind = "access"
    THEN {form_result(ss, ev, validated, calls, t, o, iss)
          : o \in authenticate_site(ev.username, ev.password, db, tdb)}
    ELSE {Run(ss, "landing", validated, "", FALSE, FALSE, calls, db, tdb, iss)}

\* main()
main(ss, ev, cfg, t, db, tdb, nid, iss) ==
    IF ~cfg
    \* config.validate() raises ValueError: show_setup_instructions()
    THEN {Run(ss, "setup", "none", "", FALSE, FALSE, <<>>, db, tdb, iss)}
    ELSE
    LET ss0 == [ss EXCEPT !.keys = @ \cup {"session_token", "current_site"}]
    IN  IF ss0.session_token = {}
        THEN landing_page(ss0, ev, "none", <<>>, t, db, tdb, nid, iss)
        ELSE UNION
             {IF o.ok /\ o.site # {}
              THEN site_management_page(
                       [ss0 EXCEPT !.current_site = o.site],
                       CHOOSE s \in o.site : TRUE, ev, "valid", o.calls,
                       o.db, tdb, iss)
              ELSE landing_page(
                       [ss0 EXCEPT !.session_token = {}, !.current_site = {}],
                       ev, "invalid", o.calls, t, o.db, tdb, nid, iss)
              : o \in UNION {validate_session_token(token, t, db, tdb)
                             : token \in ss0.session_token}}

\* one run of the script: the imports of main.py, which create the global
\* SupabaseClient (its _initialize raises ConnectionError when
\* config.validate() fails), then main()
script_run(ss, ev, cfg, t, db, tdb, nid, iss) ==
    IF ~cfg
    THEN {Run(ss, "import", "none", "Failed to initialize Supabase client",
              TRUE, FALSE, <<>>, db, tdb, iss)}
    ELSE main(ss, ev, cfg, t, db, tdb, nid, iss)

----------------------------------------------------------------------------
(* The state machine *)

\* create_site calls in flight at the same time (two script runs)
Requests == {"r1", "r2"}

Idle == [op |-> "none"]

\* nothing stored, no browser session opened
Empty ==
    /\ sites = {}
    /\ tabs = {}
    /\ nextId = 1
    /\ now = 0
    /\ issued = {}
    /\ last = Idle
    /\ secret = <<"k">>
    /\ session = [c \in Clients |-> NoSession]
    /\ page = [c \in Clients |-> "none"]
    /\ reqs = [r \in Requests |-> [pc |-> "idle"]]

Init == Empty /\ configured = TRUE

\* time passes
Tick ==
    /\ last = Idle
    /\ now < MaxClock
    /\ now' = now + 1
    /\ last' = Idle
    /\ UNCHANGED <<sites, tabs, nextId, issued, app>>

\* create_site_page: auth_service.create_site(username, password)
CreateSite(username, password, salt) ==
    /\ last = Idle
    /\ \E o \in create_site(username, password, salt, SiteId(nextId), sites, tabs) :
           /\ o.db # sites => nextId <= MaxSites
           /\ sites' = o.db
           /\ tabs' = o.tdb
           /\ nextId' = IF o.db = sites THEN nextId ELSE nextId + 1
           /\ last' = [op |-> "create_site", username |-> username,
                       password |-> password, ok |-> o.ok,
                       err |-> o.err, site |-> o.site, raised |-> o.raised,
                       calls |-> o.calls]
    /\ UNCHANGED <<now, issued, app>>

\* auth_service.validate_username(username)
ValidateUsername(username) ==
    /\ last = Idle
    /\ \E up \in CallResults :
           LET vu == validate_username(username, sites, up)
           IN  last' = [op |-> "validate_username", username |-> username,
                        ok |-> vu.ok, err |-> vu.err, raised |-> vu.raised,
                        calls |-> vu.calls]
    /\ UNCHANGED <<sites, tabs, nextId, now, issued, app>>

\* access_site_page: auth_service.authenticate_site(username, password)
AuthenticateSite(username, password) ==
    /\ last = Idle
    /\ \E o \in authenticate_site(username, password, sites, tabs) :
           /\ sites' = o.db
           /\ last' = [op |-> "authenticate_site", username |-> username,
                       password |-> password, ok |-> o.ok,
                       err |-> o.err, site |-> o.site, raised |-> o.raised,
                       calls |-> o.calls,
                       written |-> o.db # sites]
    /\ UNCHANGED <<tabs, nextId, now, issued, app>>

\* the pages' auth_service.create_session_token(site['id'], username) for
\* the site they just created or authenticated
CreateSessionToken(site) ==
    /\ last = Idle
    /\ Cardinality(issued) < MaxTokens
    /\ site \in sites /\ site.is_active
    /\ LET token == create_session_token(generate_session_id(Cardinality(issued) + 1),
                                         site.id, site.username, now)
       IN  /\ issued' = issued \cup {[token |-> token, site_id |-> site.id,
                                      username |-> site.username, at |-> now,
                                      secret |-> SESSION_SECRET]}
           /\ last' = [op |-> "create_session_token", token |-> token]
    /\ UNCHANGED <<sites, tabs, nextId, now, app>>

\* main: auth_service.validate_session_token(token)
ValidateSessionToken(c) ==
    /\ last = Idle
    /\ \E o \in validate_session_token(c.token, now, sites, tabs) :
           /\ sites' = o.db
           /\ last' = [op |-> "validate_session_token", token |-> c.token,
                       kind |-> c.kind, base |-> c.base,
                       ok |-> o.ok, err |-> o.err, site |-> o.site,
                       raised |-> o.raised, calls |-> o.calls,
                       written |-> o.db # sites]
    /\ UNCHANGED <<tabs, nextId, now, issued, app>>

\* the database administrator deactivates a site
DeactivateSite(site) ==
    /\ last = Idle
    /\ site \in sites /\ site.is_active
    /\ sites' = (sites \ {site}) \cup {[site EXCEPT !.is_active = FALSE]}
    /\ last' = Idle
    /\ UNCHANGED <<tabs, nextId, now, issued, app>>

\* the database administrator deletes a site row
DeleteSite(site) ==
    /\ last = Idle
    /\ site \in sites
    /\ sites' = sites \ {site}
    /\ last' = Idle
    /\ UNCHANGED <<tabs, nextId, now, issued, app>>

\* the database administrator changes a site's username to a free one
RenameSite(site, username) ==
    /\ last = Idle
    /\ site \in sites /\ site.is_active
    /\ username # site.username
    /\ get_site_by_username(sites, username) = {}
    /\ sites' = (sites \ {site}) \cup {[site EXCEPT !.username = username]}
    /\ last' = Idle
    /\ UNCHANGED <<tabs, nextId, now, issued, app>>

\* the page shows the handler's result and the script run ends
Respond ==
    /\ last # Idle
    /\ last' = Idle
    /\ UNCHANGED <<sites, tabs, nextId, now, issued, app>>

ValidUsernames == {<<"a", "b", "c">>, <<"d", "_", "-">>}

Next ==
    \/ Tick
    \/ last = Idle /\ \E u \in Usernames, p \in NewPasswords, s \in Salts :
                          CreateSite(u, p, s)
    \/ last = Idle /\ \E u \in ValidUsernames, p \in LoginPasswords :
                          AuthenticateSite(u, p)
    \/ last = Idle /\ \E site \in sites : CreateSessionToken(site)
    \/ last = Idle /\ \E c \in Candidates : ValidateSessionToken(c)
    \/ last = Idle /\ \E site \in sites : DeactivateSite(site)
    \/ last = Idle /\ \E site \in sites : DeleteSite(site)
    \/ last = Idle /\ \E site \in sites, u \in ValidUsernames : RenameSite(site, u)
    \/ Respond

Spec == Init /\ [][Next]_vars

\* the operations on sites alone: creation, the username check, login, and
\* what the database administrator does
NextSites ==
    \/ last = Idle /\ \E u \in Usernames, p \in NewPasswords, s \in Salts :
                          CreateSite(u, p, s)
    \/ last = Idle /\ \E u \in ProbeUsernames : ValidateUsername(u)
    \/ last = Idle /\ \E u \in ValidUsernames, p \in LoginPasswords :
                          AuthenticateSite(u, p)
    \/ last = Idle /\ \E site \in sites : DeactivateSite(site)
    \/ last = Idle /\ \E site \in sites : DeleteSite(site)
    \/ last = Idle /\ \E site \in sites, u \in ValidUsernames : RenameSite(site, u)
    \/ Respond

SpecSites == Init /\ [][NextSites]_vars

----------------------------------------------------------------------------
(* The application: the script's runs for the browser sessions *)

MaxLogins == 2    \* sessions opened (tokens handed out by the pages) in one run

\* what the editor may hold when Save is clicked: below, at and over the
\* byte limit, with one-byte characters only and with a two-byte character
Contents ==
    {<<"a">>, Rep("a", MAX_CONTENT_SIZE_BYTES), Rep("a", MAX_CONTENT_SIZE_BYTES + 1),
     <<"E">> \o Rep("a", MAX_CONTENT_SIZE_BYTES - 2),
     <<"E">> \o Rep("a", MAX_CONTENT_SIZE_BYTES - 1)}

\* what the user does to start a run: open or reload the page, submit one of
\* the landing page's forms, click Logout, click Save
FormEvents ==
    {[kind |-> "create", username |-> <<"a", "b", "c">>,
      password |-> Rep("p", MIN_PASSWORD_LENGTH)]}
    \cup {[kind |-> "access", username |-> <<"a", "b", "c">>, password |-> p]
          : p \in LoginPasswords}

AppEvents == {[kind |-> "none"], [kind |-> "logout"]} \cup FormEvents

TabEvents ==
    {[kind |-> "none"]}
    \cup {e \in FormEvents : e.password = Rep("p", MIN_PASSWORD_LENGTH)}
    \cup {[kind |-> "save", content |-> x] : x \in Contents}

\* the widget the event comes from is on the page the session shows
EventEnabled(c, ev) ==
    CASE ev.kind \in {"create", "access"} -> page[c] = "landing"
      [] ev.kind = "logout" -> page[c] = "site"
      [] ev.kind = "save" -> page[c] = "site" /\ session[c].current_tab # {}
      [] OTHER -> TRUE

\* a run of the script for browser session c
ScriptRun(c, ev) ==
    /\ last = Idle
    /\ EventEnabled(c, ev)
    /\ \E r \in script_run(session[c], ev, configured, now, sites, tabs, nextId, issued) :
           /\ Cardinality(r.db) > Cardinality(sites) => nextId <= MaxSites
           /\ Cardinality(r.iss) <= MaxLogins
           /\ sites' = r.db
           /\ tabs' = r.tdb
           /\ nextId' = IF Cardinality(r.db) > Cardinality(sites)
                        THEN nextId + 1 ELSE nextId
           /\ issued' = r.iss
           /\ session' = [session EXCEPT ![c] = r.ss]
           /\ page' = [page EXCEPT ![c] = IF r.raised THEN "exception"
                                          ELSE IF r.rerun THEN "rerun"
                                          ELSE r.entered]
           /\ last' = [op |-> "main", client |-> c, event |-> ev,
                       start |-> session[c], entered |-> r.entered,
                       validated |-> r.validated, result |-> r.result,
                       raised |-> r.raised, rerun |-> r.rerun,
                       calls |-> r.calls]
    /\ UNCHANGED <<now, configured, secret, reqs>>

\* the process is restarted with another SESSION_SECRET in its environment:
\* st.session_state, held in the process, is lost
RotateSecret ==
    /\ last = Idle
    /\ configured
    /\ secret = <<"k">>
    /\ secret' = <<"j">>
    /\ session' = [c \in Clients |-> NoSession]
    /\ page' = [c \in Clients |-> "none"]
    /\ last' = Idle
    /\ UNCHANGED <<sites, tabs, nextId, now, issued, configured, reqs>>

\* the tokens the pages handed out, presented again to the service
Held == {[token |-> r.token, kind |-> "issued", base |-> r.token] : r \in issued}

\* the process starts with the Supabase configuration set or missing
InitApp == Empty /\ configured \in BOOLEAN

NextApp ==
    \/ Tick
    \/ last = Idle /\ \E ev \in AppEvents : ScriptRun("c1", ev)
    \/ last = Idle /\ \E site \in sites : DeactivateSite(site)
    \/ Respond

SpecApp == InitApp /\ [][NextApp]_vars

\* the application, the tokens it handed out being presented to the service
\* again, before and after a restart with another secret
NextTokens ==
    \/ Tick
    \/ last = Idle /\ \E ev \in AppEvents : ScriptRun("c1", ev)
    \/ last = Idle /\ \E c \in Held : ValidateSessionToken(c)
    \/ RotateSecret
    \/ last = Idle /\ \E site \in sites : DeactivateSite(site)
    \/ Respond

SpecTokens == Init /\ [][NextTokens]_vars

\* the service with the tokens it issued presented again, untouched or
\* tampered with, the site renamed meanwhile and the process restarted with
\* another secret
NextTamper ==
    \/ Tick
    \/ last = Idle /\ \E s \in Salts :
                          CreateSite(<<"a", "b", "c">>, Rep("p", MIN_PASSWORD_LENGTH), s)
    \/ last = Idle /\ \E site \in sites : CreateSessionToken(site)
    \/ last = Idle /\ \E c \in Held \cup Tampered : ValidateSessionToken(c)
    \/ last = Idle /\ \E site \in sites, u \in ValidUsernames : RenameSite(site, u)
    \/ RotateSecret
    \/ Respond

SpecTamper == Init /\ [][NextTamper]_vars

NextTabs ==
    \/ last = Idle /\ \E c \in Clients, ev \in TabEvents : ScriptRun(c, ev)
    \/ Respond

SpecTabs == Init /\ [][NextTabs]_vars

----------------------------------------------------------------------------
(* AuthService.create_site, one persistence call at a time *)

\* lines 84-93: validate_username with its lookup, validate_password
BeginCreate(r, username, password) ==
    /\ reqs[r].pc = "idle"
    /\ \E up \in CallResults :
           LET vu == validate_username(username, sites, up)
               vp == validate_password(password)
           IN  reqs' = [reqs EXCEPT ![r] =
                   IF vu.raised
                   THEN [pc |-> "raised", username |-> username, err |-> vu.err]
                   ELSE IF ~vu.ok
                   THEN [pc |-> "failed", username |-> username, err |-> vu.err]
                   ELSE IF ~vp.ok
                   THEN [pc |-> "failed", username |-> username, err |-> vp.err]
                   ELSE [pc |-> "checked", username |-> username,
                         password_hash |-> hash_password(password, CHOOSE n \in Salts : TRUE)]]
    /\ UNCHANGED <<sites, tabs, nextId, now, issued, last, configured, secret,
                   session, page>>

\* line 97: supabase_client.create_site
InsertSite(r) ==
    /\ reqs[r].pc = "checked"
    /\ \E up \in CallResults :
           IF up
           THEN LET site == create_site_row(SiteId(nextId), reqs[r].username,
                                            reqs[r].password_hash)
                IN  /\ sites' = sites \cup {site}
                    /\ nextId' = nextId + 1
                    /\ reqs' = [reqs EXCEPT ![r] =
                                    [pc |-> "inserted", username |-> reqs[r].username,
                                     site |-> site]]
           ELSE /\ reqs' = [reqs EXCEPT ![r] =
                                [pc |-> "failed", username |-> reqs[r].username,
                                 err |-> "Failed to create site"]]
                /\ UNCHANGED <<sites, nextId>>
    /\ UNCHANGED <<tabs, now, issued, last, configured, secret, session, page>>

\* lines 101-105: supabase_client.create_tab, then the result
InsertTab(r) ==
    /\ reqs[r].pc = "inserted"
    /\ \E up \in CallResults :
           IF up
           THEN /\ tabs' = tabs \cup {create_tab(Cardinality(tabs) + 1,
                                                 reqs[r].site.id, DEFAULT_TAB_NAME, 0)}
                /\ reqs' = [reqs EXCEPT ![r] =
                                [pc |-> "done", username |-> reqs[r].username,
                                 site |-> reqs[r].site]]
           ELSE /\ reqs' = [reqs EXCEPT ![r] =
                                [pc |-> "failed", username |-> reqs[r].username,
                                 err |-> "Failed to create tab"]]
                /\ UNCHANGED tabs
    /\ UNCHANGED <<sites, nextId, now, issued, last, configured, secret,
                   session, page>>

NextRace ==
    \/ \E r \in Requests, u \in ValidUsernames, p \in NewPasswords :
           BeginCreate(r, u, p)
    \/ \E r \in Requests : InsertSite(r)
    \/ \E r \in Requests : InsertTab(r)

SpecRace == Init /\ [][NextRace]_vars

----------------------------------------------------------------------------
(* Properties *)

Fields(token) == Split(token, ".")

\* the run's site lookup itself failed (the persistence client raised)
LookupFailed ==
    \/ last.raised
    \/ last.err = TokenValidationError /\ last.calls = <<"get_site_by_id">>

\* the validated token has five fields, an expiry that parses to a naive
\* timestamp not before now, and the signature of its first four fields
WellFormedUnexpiredSigned ==
    /\ last.op = "validate_session_token"
    /\ Len(Fields(last.token)) = 5
    /\ LET f == Fields(last.token)
           e == fromisoformat(f[4])
       IN  /\ e.ok /\ ~e.aware /\ now <= e.t
           /\ f[5] = sha256_hexdigest(Join(<<f[1], f[2], f[3], f[4], SESSION_SECRET>>, ":"))

ActiveSites == {s \in sites : s.is_active}

\* C1: a token validated at the very clock value it was issued at, for a
\* site that is active under the token's username, validates with success
\* and returns that site.
C1_IssueThenValidate ==
    (/\ last.op = "validate_session_token"
     /\ last.kind = "issued"
     /\ ~LookupFailed)
    => \A r \in issued :
           (/\ r.token = last.token
            /\ r.at = now
            /\ \E s \in ActiveSites : s.id = r.site_id /\ s.username = r.username)
           => /\ last.ok
              /\ \E s \in last.site : s.id = r.site_id /\ s.username = r.username

\* C2: every issued token splits on '.' into exactly five parts, the fourth
\* being the whole expiry timestamp.
C2_FiveFields ==
    \A r \in issued :
        /\ Len(Fields(r.token)) = 5
        /\ Fields(r.token)[4] = isoformat(r.at + SessionTtl)

\* C3: a five-field token whose expiry field reads as a timestamp earlier
\* than now is rejected as expired whatever its signature field holds, and
\* no five-field token is rejected for its signature unless its expiry reads
\* as a timestamp that has not passed.
C3_ExpiredBeforeSignature ==
    (last.op = "validate_session_token" /\ Len(Fields(last.token)) = 5)
    => LET e == fromisoformat(Fields(last.token)[4])
       IN  /\ (e.ok /\ ~e.aware /\ e.t < now)
               => ~last.ok /\ last.err = ERROR_SESSION_EXPIRED
           /\ last.err = "Invalid token signature"
               => e.ok /\ ~e.aware /\ now <= e.t

\* an expired issued token whose signature was tampered with is reported
\* expired
C3_Witness ==
    /\ last.op = "validate_session_token"
    /\ last.kind = "flip"
    /\ Len(Fields(last.token)) = 5
    /\ last.err = ERROR_SESSION_EXPIRED

\* C4: an unexpired issued token with one signature character replaced is
\* rejected with the invalid-signature error, without any persistence call.
C4_FlippedSignatureRejected ==
    (/\ last.op = "validate_session_token"
     /\ last.kind = "flip"
     /\ \E r \in issued : r.token = last.base /\ now <= r.at + SessionTtl)
    => /\ ~last.ok
       /\ last.err = "Invalid token signature"
       /\ last.calls = <<>>
       /\ ~last.written

\* C5: a token whose number of '.'-separated parts is not five gets the
\* invalid-token-format failure and no persistence call is made.
C5_MalformedRejectedFirst ==
    (last.op = "validate_session_token" /\ Len(Fields(last.token)) # 5)
    => /\ ~last.ok /\ ~last.raised
       /\ last.err = "Invalid token format"
       /\ last.calls = <<>>
       /\ ~last.written

\* an issued token of more than five parts is rejected as malformed
C5_Witness ==
    /\ last.op = "validate_session_token"
    /\ last.kind = "issued"
    /\ Len(Fields(last.token)) > 5
    /\ last.err = "Invalid token format"

\* C6: validation succeeds only for a site that is active now, and a
\* well-formed, unexpired, correctly signed token of a site that is not
\* active fails with site-not-found whenever the lookup answers.
C6_InactiveSiteNotFound ==
    /\ (last.op = "validate_session_token" /\ last.ok)
        => \E s \in ActiveSites : s.id = Fields(last.token)[2]
    /\ (/\ WellFormedUnexpiredSigned
        /\ ~LookupFailed
        /\ ~\E s \in ActiveSites : s.id = Fields(last.token)[2])
        => ~last.ok /\ last.err = "Site not found"

\* an issued token is refused because its site was deactivated or deleted
C6_Witness ==
    /\ last.op = "validate_session_token"
    /\ last.kind = "issued"
    /\ last.err = "Site not found"

\* C7: an otherwise valid token whose username differs from the one on the
\* site record fails with the username-mismatch error and last_accessed is
\* not updated.
C7_UsernameMismatch ==
    (/\ WellFormedUnexpiredSigned
     /\ ~LookupFailed
     /\ \E s \in ActiveSites :
            s.id = Fields(last.token)[2] /\ s.username # Fields(last.token)[3])
    => /\ ~last.ok
       /\ last.err = "Token username mismatch"
       /\ last.calls = <<"get_site_by_id">>
       /\ ~last.written

\* an issued token is refused after its site's username changed
C7_Witness ==
    /\ last.op = "validate_session_token"
    /\ last.kind = "issued"
    /\ last.err = "Token username mismatch"

\* the active rows with the username authenticate_site was called with (a
\* run changes no row's username, hash or flag)
AuthMatches == {s \in ActiveSites : s.username = last.username}

\* C8: when the lookup answers, authenticate_site succeeds exactly when an
\* active site has the username and the password verifies against its hash,
\* fails with username-not-found or invalid-password otherwise, and updates
\* last_accessed only on success.
C8_Authenticate ==
    (last.op = "authenticate_site" /\ ~LookupFailed)
    => /\ last.ok <=> \E s \in AuthMatches : s.password_hash.pw = last.password
       /\ last.ok => \E s \in last.site : s.username = last.username /\ s.is_active
       /\ AuthMatches = {} => last.err = ERROR_USERNAME_NOT_FOUND
       /\ (AuthMatches # {} /\ ~last.ok) => last.err = ERROR_INVALID_PASSWORD
       /\ ~last.ok => (~last.written /\ last.calls = <<"get_site_by_username">>)

\* a login with the right password succeeds and last_accessed is written
C8_Witness ==
    /\ last.op = "authenticate_site"
    /\ last.ok
    /\ last.written

\* C9: no facade operation lets an exception through to its caller.
C9_NoExceptionEscapes ==
    last.op \in {"create_site", "authenticate_site", "validate_session_token"}
    => ~last.raised

\* C10: after a successful create_site the new site is stored and active and
\* owns exactly one tab: the default name, empty content, order 0.
C10_DefaultTab ==
    (last.op = "create_site" /\ last.ok)
    => \E s \in last.site :
           /\ s \in ActiveSites
           /\ s.username = last.username
           /\ Cardinality(get_tabs_by_site(tabs, s.id)) = 1
           /\ \A t \in get_tabs_by_site(tabs, s.id) :
                  t.tab_name = DEFAULT_TAB_NAME /\ t.content = <<>> /\ t.tab_order = 0

\* a site was created with its default tab
C10_Witness ==
    /\ last.op = "create_site"
    /\ last.ok
    /\ Cardinality(tabs) = 1

\* C11: a create_site call made while an active site already has the
\* username (the state a first successful call leaves) fails, when the lookup
\* answers, with the username-already-exists error and inserts no site and
\* no tab.
C11_SecondCreateFails ==
    [][(/\ last = Idle
        /\ last'.op = "create_site"
        /\ ~last'.raised
        /\ \E s \in ActiveSites : s.username = last'.username)
       => (/\ ~last'.ok
           /\ last'.err = ERROR_USERNAME_EXISTS
           /\ last'.calls = <<"get_site_by_username">>
           /\ sites' = sites
           /\ tabs' = tabs)]_vars

\* a second create_site with the username of a site that has its default tab
\* was refused
C11_Witness ==
    /\ last.op = "create_site"
    /\ last.err = ERROR_USERNAME_EXISTS
    /\ \E s \in ActiveSites :
           s.username = last.username /\ get_tabs_by_site(tabs, s.id) # {}

\* the username has a length within the limits and accepted characters only
ShapeOk(username) ==
    /\ MIN_USERNAME_LENGTH <= Len(username)
    /\ Len(username) <= MAX_USERNAME_LENGTH
    /\ \A i \in 1..Len(username) : username[i] \in UsernameChars

\* C12: a username of a wrong length or with a character outside the
\* pattern gets the invalid-username error without any persistence call; a
\* username of the right shape passes, when the lookup answers, exactly when
\* no active site has it, and gets the username-already-exists error
\* otherwise.
C12_ValidateUsername ==
    last.op = "validate_username"
    => /\ ~ShapeOk(last.username)
           => /\ ~last.ok /\ ~last.raised
              /\ last.err = ERROR_INVALID_USERNAME
              /\ last.calls = <<>>
       /\ (ShapeOk(last.username) /\ ~last.raised)
           => /\ last.ok <=> ~\E s \in ActiveSites : s.username = last.username
              /\ ~last.ok => last.err = ERROR_USERNAME_EXISTS

\* a free username of the greatest allowed length passes
C12_Witness ==
    /\ last.op = "validate_username"
    /\ Len(last.username) = MAX_USERNAME_LENGTH
    /\ last.ok

\* the step is a run in which the Save handler of browser session c ran to
\* its end for the tab with this id, the editor holding content x
SaveHandled(c, id, x) ==
    /\ last = Idle
    /\ last'.op = "main"
    /\ last'.client = c
    /\ last'.event.kind = "save"
    /\ last'.event.content = x
    /\ last'.entered = "site"
    /\ ~last'.raised
    /\ \E cur \in session'[c].current_tab : cur.id = id

Called(calls, name) == \E i \in 1..Len(calls) : calls[i] = name

\* C13: a Save of content whose UTF-8 size equals the byte limit, the
\* update going through, leaves that content stored (saved, or already
\* there); a Save of content one byte over the limit is refused with the
\* size error, update_tab_content is not called and the tabs table is
\* unchanged.
C13_SaveAtLimit ==
    [][\A c \in Clients, x \in Contents, id \in 1..MaxSites :
          SaveHandled(c, id, x)
          => /\ (Utf8Len(x) = MAX_CONTENT_SIZE_BYTES
                 /\ last'.result # "Error saving content")
                 => /\ \A t \in tabs' : t.id = id => t.content = x
                    /\ \E t \in tabs' : t.id = id
                    /\ (\E t \in tabs : t.id = id /\ t.content # x)
                        => last'.result = "Content saved!"
             /\ Utf8Len(x) = MAX_CONTENT_SIZE_BYTES + 1
                 => /\ last'.result = "Cannot save"
                    /\ ~Called(last'.calls, "update_tab_content")
                    /\ tabs' = tabs]_vars

\* content of exactly the byte limit, a two-byte character in it, was saved
C13_Witness ==
    /\ last.op = "main"
    /\ last.event.kind = "save"
    /\ last.result = "Content saved!"
    /\ Utf8Len(last.event.content) = MAX_CONTENT_SIZE_BYTES
    /\ Len(last.event.content) < MAX_CONTENT_SIZE_BYTES
    /\ \E t \in tabs : t.content = last.event.content

\* C14: a token the pages handed out, presented at a time not after its
\* expiry while its site is active under the token's username, validates
\* with success under the secret it was issued with, whatever the browser
\* session did since, and fails with the invalid-signature error under
\* another secret.
C14_ValidUntilExpiry ==
    (/\ last.op = "validate_session_token"
     /\ last.kind = "issued"
     /\ ~LookupFailed)
    => \A r \in issued :
           (/\ r.token = last.token
            /\ now <= r.at + SessionTtl
            /\ \E s \in ActiveSites : s.id = r.site_id /\ s.username = r.username)
           => /\ r.secret = secret => last.ok
              /\ r.secret # secret
                  => ~last.ok /\ last.err = "Invalid token signature"

\* C15: no two active sites have the same username.
C15_UsernameUnique ==
    \A s \in ActiveSites, t \in ActiveSites :
        s.username = t.username => s.id = t.id

\* the active sites that own no tab
Orphans == {s \in ActiveSites : get_tabs_by_site(tabs, s.id) = {}}

\* C16: when create_site's tab insert fails after its site insert, the call
\* returns failure with the error's message and the site stays stored,
\* active and without a tab; a later create_site with the username of such a
\* site fails, when the lookup answers, with username-already-exists.
C16_NoRollback ==
    /\ [](last.op = "create_site" /\ Called(last.calls, "create_tab") /\ ~last.ok
           => /\ ~last.raised
              /\ last.err = "Failed to create tab"
              /\ \E s \in Orphans : s.username = last.username)
    /\ [][(/\ last = Idle
            /\ last'.op = "create_site"
            /\ ~last'.raised
            /\ \E s \in Orphans : s.username = last'.username)
           => (/\ ~last'.ok
               /\ last'.err = ERROR_USERNAME_EXISTS
               /\ sites' = sites
               /\ tabs' = tabs)]_vars

\* a create_site was refused because a site left without a tab has the
\* username
C16_Witness ==
    /\ last.op = "create_site"
    /\ last.err = ERROR_USERNAME_EXISTS
    /\ \E s \in Orphans : s.username = last.username

\* C17: in every run of main the site management page is entered only when
\* the stored token validated in that run; when the stored token fails
\* validation, session_token and current_site are None afterwards and the
\* landing page is shown; Logout leaves no key in the session state, and a
\* run that starts with no key checks no token and shows the landing page.
C17_SessionLifecycle ==
    last.op = "main"
    => LET ss == session[last.client]
       IN  /\ last.entered = "site"
               => last.validated = "valid" /\ last.start.session_token # {}
           /\ last.validated = "invalid"
               => /\ ss.session_token = {} /\ ss.current_site = {}
                  /\ {"session_token", "current_site"} \subseteq ss.keys
                  /\ last.entered = "landing" /\ ~last.raised
           /\ (last.event.kind = "logout" /\ last.entered = "site" /\ ~last.raised)
               => ss = NoSession /\ last.rerun
           /\ (last.start = NoSession /\ configured)
               => last.validated = "none" /\ last.entered = "landing"

\* a session that had shown the site management page lost it: its stored
\* token no longer validated
C17_Witness ==
    /\ last.op = "main"
    /\ last.validated = "invalid"
    /\ "current_tab" \in last.start.keys
    /\ page[last.client] = "landing"

\* C18: an issued token is not reported expired at any time up to and
\* including the issue time plus the session lifetime, and is reported
\* expired at every later time.
C18_ExpiryBoundary ==
    (last.op = "validate_session_token" /\ last.kind = "issued")
    => \A r \in issued :
           r.token = last.token
           => /\ now <= r.at + SessionTtl => last.err # ERROR_SESSION_EXPIRED
              /\ now > r.at + SessionTtl
                  => ~last.ok /\ last.err = ERROR_SESSION_EXPIRED

\* C19: when a session saves content of an allowed size that differs from
\* what is stored, the tab being one another session has loaded too, the
\* save succeeds (no conflict is reported) and the stored content is the
\* saved one, whatever the other session holds or saved before; stated for
\* an update that goes through.
C19_LastWriteWins ==
    [][\A c \in Clients, x \in Contents, id \in 1..MaxSites :
          (/\ SaveHandled(c, id, x)
           /\ Utf8Len(x) <= MAX_CONTENT_SIZE_BYTES
           /\ last'.result # "Error saving content"
           /\ \E d \in Clients \ {c} : \E cur \in session[d].current_tab : cur.id = id
           /\ \E t \in tabs : t.id = id /\ t.content # x)
          => /\ last'.result = "Content saved!"
             /\ \E t \in tabs' : t.id = id
             /\ \A t \in tabs' : t.id = id => t.content = x]_vars

\* a session's Save replaced the content that another session, rerunning
\* after a save, holds as its current tab
C19_Witness ==
    /\ last.op = "main"
    /\ last.event.kind = "save"
    /\ last.result = "Content saved!"
    /\ \E d \in Clients \ {last.client} :
           /\ page[d] = "rerun"
           /\ \E cur \in session[d].current_tab :
                  /\ cur.content # last.event.content
                  /\ cur.content # <<>>
                  /\ cur.updated_at = "now()"
                  /\ \E t \in tabs : t.id = cur.id /\ t.content = last.event.content

\* C20: a run of the script started with the Supabase configuration missing
\* reaches main's configuration check and shows the setup instructions, no
\* earlier step having raised.
C20_SetupPageShown ==
    (last.op = "main" /\ ~configured)
    => last.entered = "setup" /\ ~last.raised

----------------------------------------------------------------------------
(* C21 *)

\* the presented token is a tampered one of five fields
TamperedFive ==
    /\ last.op = "validate_session_token"
    /\ last.kind = "tampered"
    /\ FieldCountOk(Split(last.token, "."))

\* C21 as stated: a five-field token made from an issued one by changing or
\* re-partitioning the site id, username or expiry while keeping the
\* signature is refused, and the refusal is the invalid-signature error or
\* the validation error.
C21_SignatureOrValidationError ==
    TamperedFive
    => /\ ~last.ok
       /\ last.err \in {"Invalid token signature", TokenValidationError}

\* C21, amended: the signature of a five-field token is accepted (the
\* validation goes on to the site lookup) only if the token is one issued
\* under the current secret; a token made from an issued one by changing or
\* re-partitioning its site id, username or expiry while keeping the
\* signature never succeeds and never reaches the site lookup: it fails with
\* the session-expired error when the expiry it carries has passed, and with
\* the invalid-signature error or the validation error otherwise.
C21_TamperedNeverAccepted ==
    /\ (last.op = "validate_session_token" /\ last.calls # <<>>)
       => \E r \in issued : r.token = last.token /\ r.secret = SESSION_SECRET
    /\ (last.op = "validate_session_token" /\ last.kind = "tampered")
       => ~last.ok /\ last.calls = <<>>
    /\ TamperedFive
       => LET expires_at == fromisoformat(TokenFields(last.token).fields[4])
              passed == /\ expires_at.ok /\ ~expires_at.aware
                        /\ now > expires_at.t
          IN  IF passed
              THEN last.err = ERROR_SESSION_EXPIRED
              ELSE last.err \in {"Invalid token signature", TokenValidationError}

\* a token whose username field was changed to the name the site now has is
\* refused for its signature alone: its expiry has not passed, and the site
\* it names exists under the username it carries
C21_Witness ==
    /\ TamperedFive
    /\ last.err = "Invalid token signature"
    /\ LET f == TokenFields(last.token).fields
       IN  /\ f[3] # TokenFields(last.base).fields[3]
           /\ \E site \in sites :
                  site.id = f[2] /\ site.username = f[3] /\ site.is_active

====
